---------------------------- MODULE Spec2Model ----------------------------
(***************************************************************************)
(* Model of the reference-masker reporting scripts.                        *)
(*                                                                         *)
(*   scripts/generate_report.py : parse_mask_log, parse_map_log,           *)
(*       find_masked_regions, generate_bed_file, create_visualizations,    *)
(*       generate_html_report, main                                        *)
(*                                                                         *)
(* Three specifications share the module:                                  *)
(*   SpecScan  - find_masked_regions stepping through one FASTA file       *)
(*   SpecParse - parse_mask_log / parse_map_log applied to one log text    *)
(*   Spec      - main(): the per-sample loop, the charts and the report    *)
(***************************************************************************)
EXTENDS Integers, Sequences, FiniteSets, TLC

VARIABLES
    \* ---- find_masked_regions (SpecScan) ----
    fasta,          \* the records SeqIO.parse yields: <<[id, seq]>>
    sc_pc,          \* "file" (between records) | "seq" (inside a record) | "done"
    rec_idx,        \* number of records entered so far (the current one is fasta[rec_idx])
    pos,            \* i of `for i, base in enumerate(seq)`: bases consumed so far
    in_n_region,    \* the scanner's flag
    start,          \* the scanner's run start
    regions,        \* the list being built
    run,            \* which run of the extraction this is: 1, 2, ...
    bed,            \* the lines of the BED file on disk (none before the first write)
    first_bed,      \* the lines the first run left on disk
    \* ---- parse_mask_log / parse_map_log (SpecParse) ----
    log_kind,       \* "mask" | "map": which parser the log goes to
    log_file,       \* the file: [exists, readable, content]
    p_pc,           \* "call" | "returned" | "raised"
    p_result,       \* what the call gave: [ok, error, stats]
    \* ---- main (Spec) ----
    samples,        \* args.samples
    fs,             \* per sample id, the three input files: [mask, map, fasta]
    pc,             \* "stats" | "regions" | "viz" | "html" | "done" | "crashed"
    idx,            \* samples of the loop already finished
    stats_dict,     \* dict sample -> stats, in insertion order: <<[key, val]>>
    regions_dict,   \* dict sample -> regions, in insertion order
    bed_files,      \* the BED files written, by sample
    charts,         \* the values create_visualizations hands to the plots
    html,           \* the report generate_html_report writes
    err,            \* the uncaught exception that ended the run, if any
    \* ---- validate_inputs.py: one validator call (SpecValidators) ----
    v_kind,         \* "config" | "fasta": which validator is called
    v_file,         \* the file at the path given to it
    v_type,         \* file_type of validate_fasta_file
    v_pc,           \* "call" | "returned" | "raised"
    v_result,       \* what the call gave: [raised, error, errors, warnings]
    \* ---- validate_inputs.py: main (SpecValidate) ----
    env,            \* what the run finds: [config, viral, refs, dirs, tools, entry]
    args,           \* [strict, report]
    m_pc,           \* "config" | "viral" | "refs" | "dirs" | "deps" | "report" | "exit" | "exited"
    all_errors,
    all_warnings,
    success,
    exit_status,    \* the status the process ended with (NotExited before)
    m_exc           \* the uncaught exception that ended it, if any

scanVars == <<fasta, sc_pc, rec_idx, pos, in_n_region, start, regions, run, bed, first_bed>>
parseVars == <<log_kind, log_file, p_pc, p_result>>

mainVars == <<samples, fs, pc, idx, stats_dict, regions_dict, bed_files, charts, html, err>>

validatorVars == <<v_kind, v_file, v_type, v_pc, v_result>>

runVars == <<env, args, m_pc, all_errors, all_warnings, success, exit_status, m_exc>>

vars == <<fasta, sc_pc, rec_idx, pos, in_n_region, start, regions, run, bed, first_bed,
          log_kind, log_file, p_pc, p_result,
          samples, fs, pc, idx, stats_dict, regions_dict, bed_files, charts, html, err,
          v_kind, v_file, v_type, v_pc, v_result,
          env, args, m_pc, all_errors, all_warnings, success, exit_status, m_exc>>

-----------------------------------------------------------------------------
(* Bounds *)

MaxBases == 4      \* letters in one FASTA file, over all its records
MaxRecords == 2
MaxRuns == 2       \* runs of the extraction on the same file
MaxRefs == 1       \* entries of reference_genomes
MaxLines == 2
MaxSamples == 2

-----------------------------------------------------------------------------
(* Generic helpers *)

RECURSIVE SeqsUpTo(_, _)
\* all sequences over S of length 0..n
SeqsUpTo(S, n) ==
    IF n = 0 THEN {<<>>}
    ELSE LET shorter == SeqsUpTo(S, n - 1)
         IN shorter \cup {Append(s, x) : s \in {t \in shorter : Len(t) = n - 1}, x \in S}

Last(s) == s[Len(s)]

Range(s) == {s[q] : q \in 1..Len(s)}

-----------------------------------------------------------------------------
(* find_masked_regions                                                     *)

Bases == {"A", "N", "n"}
ChromIds == {"chr1", "chr2"}

\* str.upper() on one letter
Upper(base) ==
    CASE base = "n" -> "N"
      [] base = "a" -> "A"
      [] OTHER -> base

\* `base.upper() == 'N'`
IsMasked(base) == Upper(base) = "N"

\* the flag and the run start left as the previous record ended
ScanReset_FlagKept(rs) == [in_n_region |-> in_n_region, start |-> start, regions |-> rs]

\* `in_n_region = False; start = 0` with the list built so far
ScanReset(rs) == [in_n_region |-> FALSE, start |-> 0, regions |-> rs]

\* Region with the length counted as if `end` were the last position of the run
Region_LengthInclusive(chrom, s, e) ==
    [chrom |-> chrom, start |-> s, end |-> e, length |-> e - s + 1]

Region(chrom, s, e) == [chrom |-> chrom, start |-> s, end |-> e, length |-> e - s]

\* ScanBase with the `in_n_region = False` after the append forgotten
ScanBase_FlagNotCleared(st, chrom, i, base) ==
    IF IsMasked(base)
    THEN IF ~st.in_n_region
         THEN [st EXCEPT !.start = i, !.in_n_region = TRUE]
         ELSE st
    ELSE IF st.in_n_region
         THEN [st EXCEPT !.regions = Append(@, Region(chrom, st.start, i))]
         ELSE st

\* the body of `for i, base in enumerate(seq)` (i is 0-based)
ScanBase(st, chrom, i, base) ==
    IF IsMasked(base)
    THEN IF ~st.in_n_region
         THEN [st EXCEPT !.start = i, !.in_n_region = TRUE]
         ELSE st
    ELSE IF st.in_n_region
         THEN [st EXCEPT !.regions = Append(@, Region(chrom, st.start, i)),
                         !.in_n_region = FALSE]
         ELSE st

\* ScanFlush with the end-of-sequence case left out
ScanFlush_TrailingRunLost(st, chrom, seqlen) == st

\* `if in_n_region:` after the loop: the run that reaches the end of the sequence
ScanFlush(st, chrom, seqlen) ==
    IF st.in_n_region
    THEN [st EXCEPT !.regions = Append(@, Region(chrom, st.start, seqlen))]
    ELSE st

RECURSIVE ScanFrom(_, _, _, _)
\* the enumerate loop from 0-based position i to the end of seq
ScanFrom(st, chrom, seq, i) ==
    IF i >= Len(seq) THEN st
    ELSE ScanFrom(ScanBase(st, chrom, i, seq[i + 1]), chrom, seq, i + 1)

\* one iteration of `for record in SeqIO.parse(...)`: the list after the record
ScanRecord(rs, rec) ==
    ScanFlush(ScanFrom(ScanReset(rs), rec.id, rec.seq, 0), rec.id, Len(rec.seq)).regions

RECURSIVE ScanRecords(_, _, _)
ScanRecords(rs, recs, k) ==
    IF k > Len(recs) THEN rs
    ELSE ScanRecords(ScanRecord(rs, recs[k]), recs, k + 1)

\* find_masked_regions(fasta_file) on the records of the file
find_masked_regions(recs) == ScanRecords(<<>>, recs, 1)

-----------------------------------------------------------------------------
(* generate_bed_file                                                       *)

BedHeader == << <<"# BED file of masked regions">>,
                <<"# chrom", "start", "end", "name", "score", "strand">> >>

\* BedLine with the name numbered from 0, as enumerate counts
BedLine_ZeroBasedName(region, k) ==
    <<region.chrom, region.start, region.end, <<"masked_region_", k - 1>>, region.length, ".">>

\* one line: the tab-separated fields of region k (1-based)
BedLine(region, k) ==
    <<region.chrom, region.start, region.end, <<"masked_region_", k>>, region.length, ".">>

\* the lines written to the file
generate_bed_file(rs) == BedHeader \o [k \in 1..Len(rs) |-> BedLine(rs[k], k)]

-----------------------------------------------------------------------------
(* SpecScan: find_masked_regions as the state machine it is                *)

RECURSIVE SumLens(_, _)
\* the letters of the first k records of a file whose record lengths are lens
SumLens(lens, k) == IF k = 0 THEN 0 ELSE lens[k] + SumLens(lens, k - 1)

\* the file SeqIO.parse reads: record i has the id ids[i] and the next lens[i]
\* letters of the file
FastaFile(ids, lens, letters) ==
    [i \in 1..Len(ids) |->
        [id |-> ids[i],
         seq |-> SubSeq(letters, SumLens(lens, i - 1) + 1, SumLens(lens, i))]]

\* no BED file yet (a written one has at least its two header lines)
NoBed == <<>>

\* the list of the previous run kept, as a list shared between calls would be
NewRegions_Kept == regions

\* line 68: `regions = []`
NewRegions == <<>>

ScanState == [in_n_region |-> in_n_region, start |-> start, regions |-> regions]

ScanInit ==
    /\ \E n \in 0..MaxRecords, b \in 0..MaxBases :
         \E ids \in [1..n -> ChromIds], lens \in [1..n -> 0..MaxBases],
            letters \in [1..b -> Bases] :
             /\ SumLens(lens, n) = b
             /\ fasta = FastaFile(ids, lens, letters)
    /\ sc_pc = "file"
    /\ rec_idx = 0
    /\ pos = 0
    /\ in_n_region = FALSE
    /\ start = 0
    /\ regions = <<>>
    /\ run = 1
    /\ bed = NoBed
    /\ first_bed = NoBed

\* `for record in SeqIO.parse(...)`: enter the next record, reset the run state
ScanNextRecord ==
    /\ sc_pc = "file"
    /\ rec_idx < Len(fasta)
    /\ rec_idx' = rec_idx + 1
    /\ pos' = 0
    /\ in_n_region' = ScanReset(regions).in_n_region
    /\ start' = ScanReset(regions).start
    /\ sc_pc' = "seq"
    /\ UNCHANGED <<fasta, regions>>
    /\ UNCHANGED <<run, bed, first_bed>>
    /\ UNCHANGED <<parseVars, mainVars, validatorVars, runVars>>

\* one base of the current record
ScanBaseStep ==
    /\ sc_pc = "seq"
    /\ pos < Len(fasta[rec_idx].seq)
    /\ LET st == ScanBase(ScanState, fasta[rec_idx].id, pos, fasta[rec_idx].seq[pos + 1])
       IN /\ in_n_region' = st.in_n_region
          /\ start' = st.start
          /\ regions' = st.regions
    /\ pos' = pos + 1
    /\ UNCHANGED <<fasta, sc_pc, rec_idx>>
    /\ UNCHANGED <<run, bed, first_bed>>
    /\ UNCHANGED <<parseVars, mainVars, validatorVars, runVars>>

\* the sequence is exhausted: close a run that touches its end
ScanEndRecord ==
    /\ sc_pc = "seq"
    /\ pos = Len(fasta[rec_idx].seq)
    /\ LET st == ScanFlush(ScanState, fasta[rec_idx].id, Len(fasta[rec_idx].seq))
       IN regions' = st.regions
    /\ sc_pc' = "file"
    /\ UNCHANGED <<fasta, rec_idx, pos, in_n_region, start>>
    /\ UNCHANGED <<run, bed, first_bed>>
    /\ UNCHANGED <<parseVars, mainVars, validatorVars, runVars>>

\* `return regions`
ScanReturn ==
    /\ sc_pc = "file"
    /\ rec_idx = Len(fasta)
    /\ sc_pc' = "done"
    /\ UNCHANGED <<fasta, rec_idx, pos, in_n_region, start, regions>>
    /\ UNCHANGED <<run, bed, first_bed>>
    /\ UNCHANGED <<parseVars, mainVars, validatorVars, runVars>>

\* main, lines 288-289: the returned list is written to the sample's BED file;
\* open(..., 'w') replaces whatever the file held
WriteBed ==
    /\ sc_pc = "done"
    /\ bed' = generate_bed_file(regions)
    /\ sc_pc' = "written"
    /\ UNCHANGED <<fasta, rec_idx, pos, in_n_region, start, regions, run, first_bed>>
    /\ UNCHANGED <<parseVars, mainVars, validatorVars, runVars>>

\* the extraction is run once more on the same masked FASTA: line 68 starts a
\* new list, the flag and the run start are whatever the loop sets them to
RunAgain ==
    /\ sc_pc = "written"
    /\ run < MaxRuns
    /\ run' = run + 1
    /\ first_bed' = IF run = 1 THEN bed ELSE first_bed
    /\ regions' = NewRegions
    /\ rec_idx' = 0
    /\ pos' = 0
    /\ sc_pc' = "file"
    /\ UNCHANGED <<fasta, in_n_region, start, bed>>
    /\ UNCHANGED <<parseVars, mainVars, validatorVars, runVars>>

ScanNext ==
    \/ ScanNextRecord \/ ScanBaseStep \/ ScanEndRecord \/ ScanReturn
    \/ WriteBed \/ RunAgain


-----------------------------------------------------------------------------
(* Log text and the regular expressions of parse_mask_log / parse_map_log  *)
(*                                                                         *)
(* A log text is a sequence of tokens: single characters, and the label    *)
(* phrases of the patterns as one token each.                              *)

Digits == {"0", "1", "2", "3", "4", "5", "6", "7", "8", "9"}
Whitespace == {" ", "\n"}        \* \s
NumChars == Digits \cup {"."}    \* [\d.]

Min(S) == CHOOSE x \in S : \A y \in S : x <= y

\* first index q >= p with text[q] outside S (Len(text) + 1 when there is none)
RunEnd(text, p, S) ==
    LET stops == {q \in p..Len(text) : text[q] \notin S}
    IN IF stops = {} THEN Len(text) + 1 ELSE Min(stops)

\* pattern items: a literal, a greedy X+ over a character class, a lazy .*?
Lit(tok) == [kind |-> "lit", tok |-> tok, set |-> {}, cap |-> 0]
Plus(S, cap) == [kind |-> "plus", tok |-> "", set |-> S, cap |-> cap]
LazyDot == [kind |-> "lazydot", tok |-> "", set |-> {}, cap |-> 0]

NoMatch == [found |-> FALSE, caps |-> <<>>]

RECURSIVE MatchFrom(_, _, _, _, _)
RECURSIVE TryGreedy(_, _, _, _, _, _)
RECURSIVE TryLazy(_, _, _, _, _, _, _)

\* greedy X+ at p: the longest repetition n first, then shorter ones, down to 1
TryGreedy(text, p, n, pat, k, caps) ==
    IF n < 1 THEN NoMatch
    ELSE LET c == pat[k].cap
             caps2 == IF c = 0 THEN caps ELSE [caps EXCEPT ![c] = SubSeq(text, p, p + n - 1)]
             r == MatchFrom(text, p + n, pat, k + 1, caps2)
         IN IF r.found THEN r ELSE TryGreedy(text, p, n - 1, pat, k, caps)

\* lazy .*? at p: the shortest repetition n first, then longer ones, up to max
TryLazy(text, p, n, max, pat, k, caps) ==
    IF n > max THEN NoMatch
    ELSE LET r == MatchFrom(text, p + n, pat, k + 1, caps)
         IN IF r.found THEN r ELSE TryLazy(text, p, n + 1, max, pat, k, caps)

\* the backtracking match of pat[k..] at position p of text
MatchFrom(text, p, pat, k, caps) ==
    IF k > Len(pat) THEN [found |-> TRUE, caps |-> caps]
    ELSE CASE pat[k].kind = "lit" ->
                IF p <= Len(text) /\ text[p] = pat[k].tok
                THEN MatchFrom(text, p + 1, pat, k + 1, caps)
                ELSE NoMatch
           [] pat[k].kind = "plus" ->
                TryGreedy(text, p, RunEnd(text, p, pat[k].set) - p, pat, k, caps)
           [] OTHER ->   \* "." matches anything but a newline
                TryLazy(text, p, 0, RunEnd(text, p, {c \in Range(text) : c # "\n"}) - p,
                        pat, k, caps)

NoCaps == [g \in 1..3 |-> <<>>]

RECURSIVE SearchFrom(_, _, _)
SearchFrom(pat, text, p) ==
    IF p > Len(text) THEN NoMatch
    ELSE LET r == MatchFrom(text, p, pat, 1, NoCaps)
         IN IF r.found THEN r ELSE SearchFrom(pat, text, p + 1)

\* re.search(pattern, content): the leftmost match
re_search(pat, text) == SearchFrom(pat, text, 1)

RefBasesPat == <<Lit("Ref Bases:"), Plus(Whitespace, 0), Plus(Digits, 1)>>
LowComplexityPat == <<Lit("Low Complexity Bases:"), Plus(Whitespace, 0), Plus(Digits, 1)>>
SamMaskedPat == <<Lit("Sam Bases Masked:"), Plus(Whitespace, 0), Plus(Digits, 1)>>
TotalMaskedPat ==
    <<Lit("Total Bases Masked:"), Plus(Whitespace, 0), Plus(Digits, 1), Lit("/"),
      Plus(Digits, 2), Plus(Whitespace, 0), Plus(NumChars, 3), Lit("%")>>
ReadsUsedPat == <<Lit("Reads Used:"), Plus(Whitespace, 0), Plus(Digits, 1)>>
MappedPat ==
    <<Lit("mapped:"), Plus(Whitespace, 0), Plus(NumChars, 1), Lit("%"),
      Plus(Whitespace, 0), Plus(Digits, 2)>>
MatchRatePat ==
    <<Lit("Match Rate:"), Plus(Whitespace, 0), LazyDot, Plus(Whitespace, 0),
      Plus(NumChars, 1), Lit("%")>>

DigitVal(c) ==
    CASE c = "0" -> 0 [] c = "1" -> 1 [] c = "2" -> 2 [] c = "3" -> 3 [] c = "4" -> 4
      [] c = "5" -> 5 [] c = "6" -> 6 [] c = "7" -> 7 [] c = "8" -> 8 [] c = "9" -> 9

RECURSIVE DigitsVal(_)
DigitsVal(ds) ==
    IF ds = <<>> THEN 0 ELSE 10 * DigitsVal(SubSeq(ds, 1, Len(ds) - 1)) + DigitVal(ds[Len(ds)])

\* numbers are decimals num / 10^scale; an int has scale 0
\* int(group) on a \d+ capture
py_int(ds) == [num |-> DigitsVal(ds), scale |-> 0]

RECURSIVE Normalize(_, _)
\* a decimal num / 10^scale without trailing fractional zeros
Normalize(num, scale) ==
    IF scale > 0 /\ num % 10 = 0 THEN Normalize(num \div 10, scale - 1)
    ELSE [num |-> num, scale |-> scale]

\* float(group) on a [\d.]+ capture: a value, or ValueError when the text has
\* no digit or more than one dot
py_float(cs) ==
    LET dots == {q \in 1..Len(cs) : cs[q] = "."}
        digs == SelectSeq(cs, LAMBDA c : c # ".")
    IN IF Cardinality(dots) > 1 \/ digs = <<>>
       THEN [ok |-> FALSE, val |-> [num |-> 0, scale |-> 0]]
       ELSE [ok |-> TRUE,
             val |-> Normalize(DigitsVal(digs),
                               IF dots = {} THEN 0 ELSE Len(cs) - Min(dots))]

-----------------------------------------------------------------------------
(* parse_mask_log and parse_map_log                                        *)

\* stats = {}
EmptyStats == <<>>

\* stats[key] = val
Put(stats, key, val) == (key :> val) @@ stats

Returned(stats) == [ok |-> TRUE, error |-> "", stats |-> stats]
Raised(error) == [ok |-> FALSE, error |-> error, stats |-> EmptyStats]

\* `m = re.search(label \s+ (\d+)); if m: stats[key] = int(m.group(1))`
ExtractInt(stats, content, pat, key) ==
    LET m == re_search(pat, content)
    IN IF m.found THEN Put(stats, key, py_int(m.caps[1])) ELSE stats

\* with open(log_file) as f: content = f.read()
OpenRead(file) ==
    IF ~file.exists THEN Raised("FileNotFoundError")
    ELSE IF ~file.readable THEN Raised("PermissionError")
    ELSE Returned(EmptyStats)

\* ExtractTotalMasked storing the percentage only when it is truthy (non-zero)
ExtractTotalMasked_ZeroPctSkipped(stats, content) ==
    LET m == re_search(TotalMaskedPat, content)
    IN IF ~m.found THEN Returned(stats)
       ELSE LET pct == py_float(m.caps[3])
                s1 == Put(stats, "total_masked_bases", py_int(m.caps[1]))
            IN IF ~pct.ok THEN Raised("ValueError")
               ELSE IF pct.val.num = 0 THEN Returned(s1)
               ELSE Returned(Put(s1, "masking_percentage", pct.val))

\* lines 36-39: the total and its percentage come from one match
ExtractTotalMasked(stats, content) ==
    LET m == re_search(TotalMaskedPat, content)
    IN IF ~m.found THEN Returned(stats)
       ELSE LET pct == py_float(m.caps[3])
            IN IF ~pct.ok THEN Raised("ValueError")
               ELSE Returned(Put(Put(stats, "total_masked_bases", py_int(m.caps[1])),
                                 "masking_percentage", pct.val))

parse_mask_log(file) ==
    IF ~OpenRead(file).ok THEN OpenRead(file)
    ELSE LET content == file.content
             s1 == ExtractInt(EmptyStats, content, RefBasesPat, "total_bases")
             s2 == ExtractInt(s1, content, LowComplexityPat, "low_complexity_bases")
             s3 == ExtractInt(s2, content, SamMaskedPat, "viral_masked_bases")
         IN ExtractTotalMasked(s3, content)

\* lines 55-58: percentage and count of mapped reads come from one match
ExtractMapped(stats, content) ==
    LET m == re_search(MappedPat, content)
    IN IF ~m.found THEN Returned(stats)
       ELSE LET pct == py_float(m.caps[1])
            IN IF ~pct.ok THEN Raised("ValueError")
               ELSE Returned(Put(Put(stats, "mapped_percentage", pct.val),
                                 "mapped_reads", py_int(m.caps[2])))

\* lines 60-62
ExtractMatchRate(stats, content) ==
    LET m == re_search(MatchRatePat, content)
    IN IF ~m.found THEN Returned(stats)
       ELSE LET rate == py_float(m.caps[1])
            IN IF ~rate.ok THEN Raised("ValueError")
               ELSE Returned(Put(stats, "match_rate", rate.val))

parse_map_log(file) ==
    IF ~OpenRead(file).ok THEN OpenRead(file)
    ELSE LET content == file.content
             s1 == ExtractInt(EmptyStats, content, ReadsUsedPat, "total_reads")
             r2 == ExtractMapped(s1, content)
         IN IF ~r2.ok THEN r2 ELSE ExtractMatchRate(r2.stats, content)

MaskFields == {"total_bases", "low_complexity_bases", "viral_masked_bases",
               "total_masked_bases", "masking_percentage"}
MapFields == {"total_reads", "mapped_percentage", "mapped_reads", "match_rate"}

-----------------------------------------------------------------------------
(* SpecParse: one parser applied to one log file                           *)

MaskLabels == {"Ref Bases:", "Low Complexity Bases:", "Sam Bases Masked:",
               "Total Bases Masked:"}
MapLabels == {"Reads Used:", "mapped:", "Match Rate:"}

\* what may follow a label on its line
MaskValues ==
    { <<" ", "7">>, <<" ", "0">>, <<" ", "x">>, <<"7">>,
      <<" ", "1", "5", "0", "/", "1", "0", "0", "0", " ", "1", "5", ".", "0", "0", "0", "%">>,
      <<" ", "0", "/", "9", " ", "0", ".", "0", "%">>,
      <<" ", "1", "/", "2", " ", "1", ".", "2", ".", "3", "%">> }
MapValues ==
    { <<" ", "7">>, <<" ", "0">>, <<" ", "x">>,
      <<" ", "1", "5", ".", "5", "%", " ", "3">>,
      <<" ", "0", ".", "0", "%", " ", "0">>,
      <<" ", ".", "%", " ", "3">>,
      <<" ", "x", " ", "9", "9", ".", "5", "%">> }

MaskLines == {<<l>> \o v : l \in MaskLabels, v \in MaskValues} \cup {<<"x">>}
MapLines == {<<l>> \o v : l \in MapLabels, v \in MapValues} \cup {<<"x">>}

RECURSIVE JoinLines(_)
\* the lines, each ended by a newline
JoinLines(ls) ==
    IF ls = <<>> THEN <<>> ELSE Head(ls) \o <<"\n">> \o JoinLines(Tail(ls))

LogTexts(lines) == {JoinLines(ls) : ls \in SeqsUpTo(lines, MaxLines)}

TextFile(content) == [exists |-> TRUE, readable |-> TRUE, content |-> content]
UnreadableFile == [exists |-> TRUE, readable |-> FALSE, content |-> <<>>]
MissingFile == [exists |-> FALSE, readable |-> FALSE, content |-> <<>>]

ParseInit ==
    /\ log_kind \in {"mask", "map"}
    /\ log_file \in {TextFile(t) : t \in LogTexts(IF log_kind = "mask" THEN MaskLines
                                                                      ELSE MapLines)}
                    \cup {UnreadableFile, MissingFile}
    /\ p_pc = "call"
    /\ p_result = Returned(EmptyStats)

ParseFinish(r) ==
    /\ p_result' = r
    /\ p_pc' = IF r.ok THEN "returned" ELSE "raised"
    /\ UNCHANGED <<log_kind, log_file>>

ParseMaskLog ==
    /\ p_pc = "call"
    /\ log_kind = "mask"
    /\ ParseFinish(parse_mask_log(log_file))
    /\ UNCHANGED <<scanVars, mainVars, validatorVars, runVars>>

ParseMapLog ==
    /\ p_pc = "call"
    /\ log_kind = "map"
    /\ ParseFinish(parse_map_log(log_file))
    /\ UNCHANGED <<scanVars, mainVars, validatorVars, runVars>>

ParseNext == ParseMaskLog \/ ParseMapLog

-----------------------------------------------------------------------------
(* Python dicts keep insertion order: a dict is a sequence of [key, val]   *)

EmptyDict == <<>>

DictKeys(d) == [q \in 1..Len(d) |-> d[q].key]

DictHas(d, k) == \E q \in 1..Len(d) : d[q].key = k

\* d[k] for a key d holds
DictGet(d, k) == d[CHOOSE q \in 1..Len(d) : d[q].key = k].val

\* d.get(k, default)
DictGetOr(d, k, default) == IF DictHas(d, k) THEN DictGet(d, k) ELSE default

\* DictSet putting a new key in front of the others
DictSet_NewKeyFirst(d, k, v) ==
    IF DictHas(d, k)
    THEN [q \in 1..Len(d) |-> IF d[q].key = k THEN [key |-> k, val |-> v] ELSE d[q]]
    ELSE <<[key |-> k, val |-> v]>> \o d

\* d[k] = v: a key already there keeps its place
DictSet(d, k, v) ==
    IF DictHas(d, k)
    THEN [q \in 1..Len(d) |-> IF d[q].key = k THEN [key |-> k, val |-> v] ELSE d[q]]
    ELSE Append(d, [key |-> k, val |-> v])

\* stats.update(other)
Update(stats, other) == other @@ stats

-----------------------------------------------------------------------------
(* Number formatting of the report                                         *)

Zero == [num |-> 0, scale |-> 0]

RECURSIVE Pow10(_)
Pow10(n) == IF n = 0 THEN 1 ELSE 10 * Pow10(n - 1)

DigitChar(d) ==
    CASE d = 0 -> "0" [] d = 1 -> "1" [] d = 2 -> "2" [] d = 3 -> "3" [] d = 4 -> "4"
      [] d = 5 -> "5" [] d = 6 -> "6" [] d = 7 -> "7" [] d = 8 -> "8" [] d = 9 -> "9"

RECURSIVE IntDigits(_)
\* the decimal digits of n >= 0
IntDigits(n) == IF n < 10 THEN <<DigitChar(n)>> ELSE Append(IntDigits(n \div 10), DigitChar(n % 10))

RECURSIVE Grouped(_)
\* digits with a comma before every group of three from the right
Grouped(ds) ==
    IF Len(ds) <= 3 THEN ds
    ELSE Grouped(SubSeq(ds, 1, Len(ds) - 3)) \o <<",">> \o SubSeq(ds, Len(ds) - 2, Len(ds))

RECURSIVE PadLeft(_, _)
PadLeft(ds, n) == IF Len(ds) >= n THEN ds ELSE PadLeft(<<"0">> \o ds, n)

\* v rounded (half to even) to d fractional digits, as an integer count of 10^-d
RoundTo(v, d) ==
    IF v.scale <= d THEN v.num * Pow10(d - v.scale)
    ELSE LET unit == Pow10(v.scale - d)
             q == v.num \div unit
             r == v.num % unit
         IN IF 2 * r > unit \/ (2 * r = unit /\ q % 2 = 1) THEN q + 1 ELSE q

Formatted(text) == [ok |-> TRUE, text |-> text]
FormatError == [ok |-> FALSE, text |-> <<>>]

\* an optional value: stats.get(key, 'N/A')
Present(v) == [present |-> TRUE, val |-> v]
NA == [present |-> FALSE, val |-> Zero]

StatsGet(stats, key) == IF key \in DOMAIN stats THEN Present(stats[key]) ELSE NA

\* f"{x:,}": ValueError for the string 'N/A'
FormatComma(x) ==
    IF ~x.present THEN FormatError
    ELSE LET whole == x.val.num \div Pow10(x.val.scale)
             frac == x.val.num % Pow10(x.val.scale)
         IN Formatted(Grouped(IntDigits(whole)) \o
                      (IF x.val.scale = 0 THEN <<>>
                       ELSE <<".">> \o PadLeft(IntDigits(frac), x.val.scale)))

\* f"{x:.<d>f}": ValueError for the string 'N/A'
FormatFixed(x, d) ==
    IF ~x.present THEN FormatError
    ELSE LET n == RoundTo(x.val, d)
         IN Formatted(IntDigits(n \div Pow10(d)) \o <<".">> \o
                      PadLeft(IntDigits(n % Pow10(d)), d))

-----------------------------------------------------------------------------
(* create_visualizations and generate_html_report                          *)

NoCharts == [drawn |-> FALSE, samples |-> <<>>, mask_pcts |-> <<>>, viral_bases |-> <<>>,
             lowc_bases |-> <<>>, hist_drawn |-> FALSE, all_lengths |-> <<>>,
             map_drawn |-> FALSE, map_pcts |-> <<>>]

\* stats_dict[s].get(key, 0)
StatsGetOrZero(stats, key) == IF key \in DOMAIN stats THEN stats[key] ELSE Zero

RECURSIVE AllLengths(_)
\* all_lengths.extend([r['length'] for r in regions]) over regions_dict.items()
AllLengths(rd) ==
    IF rd = <<>> THEN <<>>
    ELSE LET rs == Head(rd).val
         IN [k \in 1..Len(rs) |-> rs[k].length] \o AllLengths(Tail(rd))

\* the values of the four plots, or the KeyError of line 126
create_visualizations(sd, rd) ==
    LET keys == DictKeys(sd)
        n == Len(keys)
        st(q) == sd[q].val
    IN IF \E q \in 1..n : "masking_percentage" \notin DOMAIN st(q)
       THEN [ok |-> FALSE, error |-> "KeyError", charts |-> NoCharts]
       ELSE [ok |-> TRUE, error |-> "",
             charts |->
               [drawn |-> TRUE,
                samples |-> keys,
                mask_pcts |-> [q \in 1..n |-> st(q)["masking_percentage"]],
                viral_bases |-> [q \in 1..n |-> StatsGetOrZero(st(q), "viral_masked_bases")],
                lowc_bases |-> [q \in 1..n |-> StatsGetOrZero(st(q), "low_complexity_bases")],
                hist_drawn |-> rd # <<>> /\ AllLengths(rd) # <<>>,
                all_lengths |-> IF rd # <<>> THEN AllLengths(rd) ELSE <<>>,
                map_drawn |-> \E q \in 1..n : "mapped_percentage" \in DOMAIN st(q),
                map_pcts |-> IF \E q \in 1..n : "mapped_percentage" \in DOMAIN st(q)
                             THEN [q \in 1..n |-> StatsGetOrZero(st(q), "mapped_percentage")]
                             ELSE <<>>]]

NoHtml == [written |-> FALSE, n_samples |-> 0, blocks |-> <<>>]

\* the formatted fields of one sample's block, in the order the f-string
\* evaluates them
SampleCells(stats, rs) ==
    << FormatComma(StatsGet(stats, "total_bases")),
       FormatFixed(StatsGet(stats, "masking_percentage"), 3),
       FormatComma(StatsGet(stats, "viral_masked_bases")),
       FormatComma(StatsGet(stats, "low_complexity_bases")),
       FormatComma(StatsGet(stats, "mapped_reads")),
       FormatFixed(StatsGet(stats, "mapped_percentage"), 4),
       FormatComma(Present([num |-> Len(rs), scale |-> 0])) >>

\* the report, or the ValueError of formatting 'N/A' as a number
generate_html_report(sd, rd) ==
    LET cells(q) == SampleCells(sd[q].val, DictGetOr(rd, sd[q].key, <<>>))
    IN IF \E q \in 1..Len(sd) : \E c \in 1..7 : ~cells(q)[c].ok
       THEN [ok |-> FALSE, error |-> "ValueError", html |-> NoHtml]
       ELSE [ok |-> TRUE, error |-> "",
             html |-> [written |-> TRUE,
                       n_samples |-> Len(sd),
                       blocks |-> [q \in 1..Len(sd) |->
                                     [sample |-> sd[q].key,
                                      cells |-> [c \in 1..7 |-> cells(q)[c].text]]]]]

-----------------------------------------------------------------------------
(* main                                                                    *)

SampleIds == {"s1", "s2"}

\* --samples: one or more names
SampleLists == SeqsUpTo(SampleIds, MaxSamples) \ {<<>>}

RefBasesLine == <<"Ref Bases:", " ", "7">>
MaskLogFull ==
    JoinLines(<< RefBasesLine, <<"Low Complexity Bases:", " ", "0">>,
                 <<"Sam Bases Masked:", " ", "7">>,
                 <<"Total Bases Masked:", " ", "1", "5", "0", "/", "1", "0", "0", "0", " ",
                   "1", "5", ".", "0", "0", "0", "%">> >>)
\* no Low Complexity and no Sam Bases Masked line
MaskLogPartial ==
    JoinLines(<< RefBasesLine,
                 <<"Total Bases Masked:", " ", "7", "/", "7", " ", "1", "0", "0", ".", "0", "%">> >>)
\* a percentage float() rejects
MaskLogBadPct ==
    JoinLines(<< RefBasesLine,
                 <<"Total Bases Masked:", " ", "1", "/", "2", " ", "1", ".", "2", ".", "3", "%">> >>)
MapLogFull ==
    JoinLines(<< <<"Reads Used:", " ", "7">>,
                 <<"mapped:", " ", "1", "5", ".", "5", "%", " ", "3">>,
                 <<"Match Rate:", " ", "x", " ", "9", "9", ".", "5", "%">> >>)

FastaRuns == << [id |-> "chr1", seq |-> <<"N", "A", "n">>] >>
FastaNoRuns == << [id |-> "chr1", seq |-> <<"A">>] >>

MaskLogFiles == {TextFile(t) : t \in {MaskLogFull, MaskLogPartial, MaskLogBadPct}}
                    \cup {MissingFile, UnreadableFile}
MapLogFiles == {TextFile(MapLogFull), MissingFile, UnreadableFile}
FastaFiles == {TextFile(FastaRuns), TextFile(FastaNoRuns), MissingFile, UnreadableFile}

SampleFiles == [mask : MaskLogFiles, map : MapLogFiles, fasta : FastaFiles]
NoFiles == [mask |-> MissingFile, map |-> MissingFile, fasta |-> MissingFile]

\* the path an OSError names when nothing was opened: none
NoPath == <<>>

NoError == [type |-> "", filename |-> NoPath]

\* the mask log path built without the sample id
MaskLogPath_NoSample(sample) == <<"log_dir", "", "_mask.log">>

\* lines 270-271 and 282: os.path.join(dir, f"{sample}_<suffix>")
MaskLogPath(sample) == <<"log_dir", sample, "_mask.log">>
MapLogPath(sample) == <<"log_dir", sample, "_map.log">>
MaskedFastaPath(sample) == <<"results_dir", sample, "_masked.fasta">>

\* the exceptions of open(): they carry the path that was given to open()
OSErrors == {"FileNotFoundError", "PermissionError"}
ExceptionFilename(type, path) == IF type \in OSErrors THEN path ELSE NoPath

Init ==
    /\ samples \in SampleLists
    /\ fs \in [SampleIds -> SampleFiles]
    /\ \A s \in SampleIds \ Range(samples) : fs[s] = NoFiles
    /\ pc = "stats"
    /\ idx = 0
    /\ stats_dict = EmptyDict
    /\ regions_dict = EmptyDict
    /\ bed_files = EmptyDict
    /\ charts = NoCharts
    /\ html = NoHtml
    /\ err = NoError

\* the existence check left out
path_exists_Unchecked(file) == TRUE

\* os.path.exists(path)
path_exists(file) == file.exists

\* lines 273-277: the stats of one sample, or the exception a parser raised
SampleStats(files) ==
    LET r1 == IF path_exists(files.mask) THEN parse_mask_log(files.mask)
              ELSE Returned(EmptyStats)
        r2 == IF path_exists(files.map) THEN parse_map_log(files.map)
              ELSE Returned(EmptyStats)
    IN IF ~r1.ok THEN [ok |-> FALSE, error |-> r1.error, file |-> "mask.log", stats |-> EmptyStats]
       ELSE IF ~r2.ok THEN [ok |-> FALSE, error |-> r2.error, file |-> "map.log", stats |-> EmptyStats]
       ELSE [ok |-> TRUE, error |-> "", file |-> "", stats |-> Update(r1.stats, r2.stats)]

\* an exception nothing catches ends the run; path is the file being read
Crash(type, path) ==
    /\ pc' = "crashed"
    /\ err' = [type |-> type, filename |-> ExceptionFilename(type, path)]

\* lines 266-279: the logs of the next sample
LoadStats ==
    /\ pc = "stats"
    /\ LET sample == samples[idx + 1]
       IN \E r \in {SampleStats(fs[sample])} :
          IF r.ok
          THEN /\ stats_dict' = DictSet(stats_dict, sample, r.stats)
               /\ pc' = "regions"
               /\ UNCHANGED err
          ELSE /\ Crash(r.error, IF r.file = "mask.log" THEN MaskLogPath(sample)
                                  ELSE MapLogPath(sample))
               /\ UNCHANGED stats_dict
    /\ UNCHANGED <<samples, fs, idx, regions_dict, bed_files, charts, html>>
    /\ UNCHANGED <<scanVars, parseVars, validatorVars, runVars>>

\* SeqIO.parse opens the file: the records, or the exception of open()
ReadFasta(file) == OpenRead(file)

\* lines 281-290: the masked FASTA of the sample and its BED file
LoadRegions ==
    /\ pc = "regions"
    /\ LET sample == samples[idx + 1]
           file == fs[sample].fasta
       IN IF ~path_exists(file)
          THEN /\ pc' = IF idx + 1 < Len(samples) THEN "stats" ELSE "viz"
               /\ idx' = idx + 1
               /\ UNCHANGED <<regions_dict, bed_files, err>>
          ELSE IF ~ReadFasta(file).ok
          THEN /\ Crash(ReadFasta(file).error, MaskedFastaPath(sample))
               /\ UNCHANGED <<idx, regions_dict, bed_files>>
          ELSE LET rs == find_masked_regions(file.content)
               IN /\ regions_dict' = DictSet(regions_dict, sample, rs)
                  /\ bed_files' = DictSet(bed_files, sample, generate_bed_file(rs))
                  /\ pc' = IF idx + 1 < Len(samples) THEN "stats" ELSE "viz"
                  /\ idx' = idx + 1
                  /\ UNCHANGED err
    /\ UNCHANGED <<samples, fs, stats_dict, charts, html>>
    /\ UNCHANGED <<scanVars, parseVars, validatorVars, runVars>>

\* line 294
CreateVisualizations ==
    /\ pc = "viz"
    /\ \E r \in {create_visualizations(stats_dict, regions_dict)} :
          IF r.ok
          THEN /\ charts' = r.charts
               /\ pc' = "html"
               /\ UNCHANGED err
          ELSE /\ Crash(r.error, NoPath)
               /\ UNCHANGED charts
    /\ UNCHANGED <<samples, fs, idx, stats_dict, regions_dict, bed_files, html>>
    /\ UNCHANGED <<scanVars, parseVars, validatorVars, runVars>>

\* line 299
GenerateHtmlReport ==
    /\ pc = "html"
    /\ \E r \in {generate_html_report(stats_dict, regions_dict)} :
          IF r.ok
          THEN /\ html' = r.html
               /\ pc' = "done"
               /\ UNCHANGED err
          ELSE /\ Crash(r.error, NoPath)
               /\ UNCHANGED html
    /\ UNCHANGED <<samples, fs, idx, stats_dict, regions_dict, bed_files, charts>>
    /\ UNCHANGED <<scanVars, parseVars, validatorVars, runVars>>

Next == LoadStats \/ LoadRegions \/ CreateVisualizations \/ GenerateHtmlReport

-----------------------------------------------------------------------------
(* validate_inputs.py: the configuration                                   *)

\* a YAML value under a key: absent, an integer, or a string
Absent == [present |-> FALSE, type |-> "none", num |-> 0]
IntVal(n) == [present |-> TRUE, type |-> "int", num |-> n]
StrVal == [present |-> TRUE, type |-> "str", num |-> 0]

\* lines 47 and 53-57
required_sections == <<"viral_database", "reference_genomes", "output_dir", "temp_dir", "log_dir">>
required_params ==
    << [section |-> "shred", params |-> <<"overlap", "median_length", "variance", "min_length">>],
       [section |-> "mapping", params |-> <<"min_identity", "max_indel">>],
       [section |-> "masking", params |-> <<"entropy_threshold">>] >>

\* `key in config` for the loaded document
InConfig(config, key) ==
    IF key \in Range(required_sections) THEN key \in config.top
    ELSE IF key = "threads" THEN config.threads.present
    ELSE config[key].kind # "absent"

\* what a validator call gives: the two lists, or the exception it let through
Lists(errors, warnings) ==
    [raised |-> FALSE, error |-> "", errors |-> errors, warnings |-> warnings]
Throw(error) == [raised |-> TRUE, error |-> error, errors |-> <<>>, warnings |-> <<>>]

AddError(r, msg) == [r EXCEPT !.errors = Append(@, msg)]
AddWarning(r, msg) == [r EXCEPT !.warnings = Append(@, msg)]

RECURSIVE CheckSections(_, _, _)
\* lines 48-50
CheckSections(r, config, k) ==
    IF k > Len(required_sections) THEN r
    ELSE CheckSections(IF InConfig(config, required_sections[k]) THEN r
                       ELSE AddError(r, <<"Missing required configuration section", required_sections[k]>>),
                       config, k + 1)

RECURSIVE CheckParamsOf(_, _, _, _)
\* lines 63-65 for one section that is in the configuration; `param not in
\* config[section]` raises TypeError when the section holds no mapping (null)
CheckParamsOf(r, config, sec, k) ==
    IF r.raised \/ k > Len(sec.params) THEN r
    ELSE IF config[sec.section].kind = "null" THEN Throw("TypeError")
    ELSE CheckParamsOf(IF config[sec.section].params[sec.params[k]].present THEN r
                       ELSE AddError(r, <<"Missing required parameter", sec.section, sec.params[k]>>),
                       config, sec, k + 1)

RECURSIVE CheckParams(_, _, _)
\* lines 59-65
CheckParams(r, config, k) ==
    IF r.raised \/ k > Len(required_params) THEN r
    ELSE LET sec == required_params[k]
         IN CheckParams(IF ~InConfig(config, sec.section)
                        THEN AddError(r, <<"Missing required configuration section", sec.section>>)
                        ELSE CheckParamsOf(r, config, sec, 1),
                        config, k + 1)

\* lines 69-74: min_identity; comparing a string with 0 raises TypeError
CheckIdentity(r, config) ==
    IF r.raised \/ ~InConfig(config, "mapping") THEN r
    ELSE LET identity == config.mapping.params.min_identity
         IN IF ~identity.present THEN r
            ELSE IF identity.type # "int" THEN Throw("TypeError")
            ELSE IF ~(0 <= identity.num /\ identity.num <= 100)
                 THEN AddError(r, <<"min_identity must be between 0-100, got", identity.num>>)
            ELSE IF identity.num < 80
                 THEN AddWarning(r, <<"min_identity is quite low", identity.num>>)
            ELSE r

\* lines 76-79: max_indel
CheckIndel(r, config) ==
    IF r.raised \/ ~InConfig(config, "mapping") THEN r
    ELSE LET indel == config.mapping.params.max_indel
         IN IF ~indel.present THEN r
            ELSE IF indel.type # "int" THEN Throw("TypeError")
            ELSE IF ~(0 <= indel.num /\ indel.num <= 20)
                 THEN AddError(r, <<"max_indel must be between 0-20, got", indel.num>>)
            ELSE r

\* lines 81-86: `overlap >= median` compares two integers, or two strings
\* (equal ones here), and raises TypeError for a string and an integer
CheckOverlap(r, config) ==
    IF r.raised \/ ~InConfig(config, "shred") THEN r
    ELSE LET overlap == config.shred.params.overlap
             median == config.shred.params.median_length
         IN IF ~(overlap.present /\ median.present) THEN r
            ELSE IF overlap.type # median.type THEN Throw("TypeError")
            ELSE IF overlap.num >= median.num
                 THEN AddError(r, <<"shred overlap must be less than median_length",
                                    overlap.num, median.num>>)
            ELSE r

\* CheckThreads with a high thread count reported as an error
CheckThreads_HighIsError(r, config) ==
    IF r.raised \/ ~InConfig(config, "threads") THEN r
    ELSE LET threads == config.threads
         IN IF threads.type # "int" \/ threads.num < 1 \/ threads.num > 32
            THEN AddError(r, <<"threads must be a positive integer, got", threads>>)
            ELSE r

\* lines 88-93: threads
CheckThreads(r, config) ==
    IF r.raised \/ ~InConfig(config, "threads") THEN r
    ELSE LET threads == config.threads
         IN IF threads.type # "int" \/ threads.num < 1
            THEN AddError(r, <<"threads must be a positive integer, got", threads>>)
            ELSE IF threads.num > 32
                 THEN AddWarning(r, <<"threads is quite high", threads.num>>)
            ELSE r

\* os.path.exists(path) left out
os_path_exists_Unchecked(file) == TRUE

\* os.path.exists(path) of validate_inputs.py
os_path_exists(file) == file.exists

\* lines 39-44: open the file and yaml.safe_load it: the document, the
\* YAMLError the function catches, or the exception of open() it does not
LoadYaml(file) ==
    IF ~file.exists THEN [outcome |-> "FileNotFoundError", config |-> file.doc]
    ELSE IF ~file.readable THEN [outcome |-> "PermissionError", config |-> file.doc]
    ELSE IF ~file.yaml_ok THEN [outcome |-> "YAMLError", config |-> file.doc]
    ELSE [outcome |-> "loaded", config |-> file.doc]

\* validate_config_file(config_path), lines 27-96; a document that is null
\* (an empty file) raises TypeError at `section not in config`
validate_config_file(file) ==
    IF ~os_path_exists(file)
    THEN Lists(<< <<"Configuration file not found">> >>, <<>>)
    ELSE LET y == LoadYaml(file)
         IN IF y.outcome = "YAMLError"
            THEN Lists(<< <<"Invalid YAML syntax in config file">> >>, <<>>)
            ELSE IF y.outcome # "loaded" THEN Throw(y.outcome)
            ELSE IF y.config.kind = "null" THEN Throw("TypeError")
            ELSE CheckThreads(
                   CheckOverlap(
                     CheckIndel(
                       CheckIdentity(
                         CheckParams(
                           CheckSections(Lists(<<>>, <<>>), y.config, 1),
                           y.config, 1),
                         y.config),
                       y.config),
                     y.config),
                   y.config)

-----------------------------------------------------------------------------
(* validate_inputs.py: validate_fasta_file                                 *)

\* lines 129-141: the warnings about the size of the file
SizeWarnings(r, file, file_type) ==
    IF file_type = "Reference genome"
    THEN LET r1 == IF file.n_records > 1000
                   THEN AddWarning(r, <<"Reference has many contigs", file.n_records>>) ELSE r
         IN IF file.total_length < 1000000
            THEN AddWarning(r1, <<"Reference genome is quite small", file.total_length>>) ELSE r1
    ELSE IF file_type = "Viral database"
    THEN LET r1 == IF file.n_records < 100
                   THEN AddWarning(r, <<"Viral database has few sequences", file.n_records>>) ELSE r
         IN IF file.total_length < 10000000
            THEN AddWarning(r1, <<"Viral database is quite small", file.total_length>>) ELSE r1
    ELSE r

\* lines 143-150: the first of the first ten records with an unusual letter
UnusualWarning(r, file) ==
    IF file.unusual THEN AddWarning(r, <<"Sequence contains unusual characters">>) ELSE r

\* validate_fasta_file(fasta_path, file_type), lines 98-155; whatever
\* SeqIO.parse raises is caught and becomes an error of the list
validate_fasta_file(file, file_type) ==
    IF ~os_path_exists(file)
    THEN Lists(<< <<file_type, "file not found">> >>, <<>>)
    ELSE IF ~file.exists THEN Throw("FileNotFoundError")    \* os.path.getsize, line 110
    ELSE IF file.size = 0
    THEN Lists(<< <<file_type, "file is empty">> >>, <<>>)
    ELSE IF ~file.parse_ok
    THEN Lists(<< <<"Error parsing", file_type, "file">> >>, <<>>)
    ELSE IF file.n_records = 0
    THEN Lists(<< <<"No sequences found in", file_type, "file">> >>, <<>>)
    ELSE UnusualWarning(SizeWarnings(Lists(<<>>, <<>>), file, file_type), file)

-----------------------------------------------------------------------------
(* SpecValidators: one call of validate_config_file or validate_fasta_file *)

\* a section of the document: absent, null (`shred:` with nothing under it),
\* or a mapping of parameters
Section(kind, params) == [kind |-> kind, params |-> params]

NoShred == [overlap |-> Absent, median_length |-> Absent, variance |-> Absent, min_length |-> Absent]
NoMapping == [min_identity |-> Absent, max_indel |-> Absent]
NoMasking == [entropy_threshold |-> Absent]

ShredSections ==
    {Section("absent", NoShred), Section("null", NoShred)} \cup
    {Section("map", p) : p \in [overlap : {Absent, IntVal(20), IntVal(40), StrVal},
                                median_length : {Absent, IntVal(40), StrVal},
                                variance : {Absent, IntVal(5)},
                                min_length : {Absent, IntVal(30)}]}
MappingSections ==
    {Section("absent", NoMapping), Section("null", NoMapping)} \cup
    {Section("map", p) : p \in [min_identity : {Absent, IntVal(-1), IntVal(0), IntVal(79), IntVal(90), IntVal(101), StrVal},
                                max_indel : {Absent, IntVal(2), IntVal(21), StrVal}]}
MaskingSections ==
    {Section("absent", NoMasking), Section("null", NoMasking)} \cup
    {Section("map", p) : p \in [entropy_threshold : {Absent, IntVal(1)}]}
ThreadsValues == {Absent, IntVal(0), IntVal(2), IntVal(33), StrVal}

\* the top-level keys of lines 47-50 a document holds: all of them, all but
\* one, or none
TopKeySets ==
    {Range(required_sections), {}} \cup
    {Range(required_sections) \ {k} : k \in Range(required_sections)}

\* the documents yaml.safe_load can give: null, or a mapping
NullDocument ==
    [kind |-> "null", top |-> {}, shred |-> Section("absent", NoShred),
     mapping |-> Section("absent", NoMapping), masking |-> Section("absent", NoMasking),
     threads |-> Absent]
Documents ==
    {NullDocument} \cup
    [kind : {"map"}, top : TopKeySets, shred : ShredSections,
     mapping : MappingSections, masking : MaskingSections, threads : ThreadsValues]

ConfigFile(doc) == [exists |-> TRUE, readable |-> TRUE, yaml_ok |-> TRUE, doc |-> doc]
MissingConfig == [exists |-> FALSE, readable |-> FALSE, yaml_ok |-> FALSE, doc |-> NullDocument]
UnreadableConfig == [exists |-> TRUE, readable |-> FALSE, yaml_ok |-> FALSE, doc |-> NullDocument]
BadYamlConfig == [exists |-> TRUE, readable |-> TRUE, yaml_ok |-> FALSE, doc |-> NullDocument]
ConfigFiles ==
    {MissingConfig, UnreadableConfig, BadYamlConfig} \cup {ConfigFile(doc) : doc \in Documents}

\* a FASTA file as validate_fasta_file sees it: its size, whether SeqIO.parse
\* gets through it, len(records), total_length, and whether one of the first
\* ten records holds a letter outside ATCGRYSWKMBDHVN-
MissingSeqFile ==
    [exists |-> FALSE, size |-> 0, parse_ok |-> FALSE, n_records |-> 0, total_length |-> 0,
     unusual |-> FALSE]
EmptySeqFile == [MissingSeqFile EXCEPT !.exists = TRUE]
BrokenSeqFile == [EmptySeqFile EXCEPT !.size = 1]
SeqFiles ==
    {MissingSeqFile, EmptySeqFile, BrokenSeqFile} \cup
    [exists : {TRUE}, size : {1}, parse_ok : {TRUE}, n_records : {0, 1, 99, 100, 1000, 1001},
     total_length : {0, 999999, 1000000, 9999999, 10000000}, unusual : BOOLEAN]

FileTypes == {"FASTA", "Viral database", "Reference genome"}

ValidatorsInit ==
    /\ v_kind \in {"config", "fasta"}
    /\ v_file \in IF v_kind = "config" THEN ConfigFiles ELSE SeqFiles
    /\ v_type \in IF v_kind = "config" THEN {"FASTA"} ELSE FileTypes
    /\ v_pc = "call"
    /\ v_result = Lists(<<>>, <<>>)

ValidatorFinish(r) ==
    /\ v_result' = r
    /\ v_pc' = IF r.raised THEN "raised" ELSE "returned"
    /\ UNCHANGED <<v_kind, v_file, v_type>>
    /\ UNCHANGED <<scanVars, parseVars, mainVars, runVars>>

ValidateConfigFile ==
    /\ v_pc = "call"
    /\ v_kind = "config"
    /\ \E r \in {validate_config_file(v_file)} : ValidatorFinish(r)

ValidateFastaFile ==
    /\ v_pc = "call"
    /\ v_kind = "fasta"
    /\ \E r \in {validate_fasta_file(v_file, v_type)} : ValidatorFinish(r)

ValidatorsNext == ValidateConfigFile \/ ValidateFastaFile

-----------------------------------------------------------------------------
(* validate_inputs.py: validate_directories, validate_dependencies, the     *)
(* report and main (SpecValidate)                                          *)

RECURSIVE validate_directories_from(_, _, _)
\* lines 165-178: the directories in turn; "unset" is a value that is not
\* truthy, "denied" a PermissionError, "failed" any other exception
validate_directories_from(r, dirs, k) ==
    IF k > Len(dirs) THEN r
    ELSE validate_directories_from(
            IF dirs[k] = "denied" THEN AddError(r, <<"No write permission for directory", k>>)
            ELSE IF dirs[k] = "failed" THEN AddError(r, <<"Cannot create/access directory", k>>)
            ELSE r,
            dirs, k + 1)

\* validate_directories(config), lines 157-180
validate_directories(dirs) == validate_directories_from(Lists(<<>>, <<>>), dirs, 1)

\* validate_dependencies(), lines 182-207: tools is what shutil.which finds
validate_dependencies(tools) ==
    LET r == IF "snakemake" \in tools THEN Lists(<<>>, <<>>)
             ELSE Lists(<< <<"Required tool not found", "snakemake">> >>, <<>>)
    IN IF tools \cap {"mamba", "conda"} = {}
       THEN AddWarning(r, <<"Neither conda nor mamba found - workflow may fail">>)
       ELSE r

\* generate_validation_report(all_errors, all_warnings, output_file), lines
\* 209-246: `pd` is bound only when the file runs as a script (line 314), and
\* open(output_file, 'w') raises when the report cannot be written
generate_validation_report(errors, warnings, entry, report) ==
    IF entry # "script" THEN [raised |-> TRUE, error |-> "NameError", success |-> FALSE]
    ELSE IF report = "unwritable" THEN [raised |-> TRUE, error |-> "OSError", success |-> FALSE]
    ELSE [raised |-> FALSE, error |-> "", success |-> Len(errors) = 0]

\* the configuration test_workflow.py writes (lines 46-69)
TestDocument ==
    [kind |-> "map", top |-> Range(required_sections),
     shred |-> Section("map", [overlap |-> IntVal(20), median_length |-> IntVal(40),
                               variance |-> IntVal(5), min_length |-> IntVal(30)]),
     mapping |-> Section("map", [min_identity |-> IntVal(90), max_indel |-> IntVal(2)]),
     masking |-> Section("map", [entropy_threshold |-> IntVal(1)]),
     threads |-> IntVal(2)]

\* the configuration files of a validation run
MainConfigs ==
    {MissingConfig, UnreadableConfig, BadYamlConfig, ConfigFile(NullDocument),
     ConfigFile(TestDocument),
     ConfigFile([TestDocument EXCEPT !.mapping.params.min_identity = IntVal(79)]),
     ConfigFile([TestDocument EXCEPT !.mapping.params.min_identity = StrVal]),
     ConfigFile([TestDocument EXCEPT !.top = @ \ {"log_dir"}])}

SeqFileOf(n, len) ==
    [exists |-> TRUE, size |-> 1, parse_ok |-> TRUE, n_records |-> n, total_length |-> len,
     unusual |-> FALSE]

\* the file config['viral_database'] names, and those of reference_genomes
ViralFiles == {MissingSeqFile, SeqFileOf(100, 10000000), SeqFileOf(1, 999999)}
RefFiles == {MissingSeqFile, SeqFileOf(1, 1000000), SeqFileOf(1, 999999)}

\* config['reference_genomes']: a list of paths, or null
RefLists ==
    {[kind |-> "null", files |-> <<>>]} \cup
    {[kind |-> "list", files |-> fl] : fl \in SeqsUpTo(RefFiles, MaxRefs)}

\* what happens to output_dir, temp_dir and log_dir in validate_directories
DirOutcomes == [1..3 -> {"ok", "denied"}] \cup {<<"failed", "ok", "unset">>}

ToolSets == SUBSET {"snakemake", "conda"}

NoException == ""

\* no exit status yet
NotExited == -1

ValidateInit ==
    /\ env \in [config : MainConfigs, viral : ViralFiles, refs : RefLists,
                dirs : DirOutcomes, tools : ToolSets, entry : {"script", "import"}]
    /\ args \in [strict : BOOLEAN, report : {"none", "writable", "unwritable"}]
    /\ m_pc = "config"
    /\ all_errors = <<>>
    /\ all_warnings = <<>>
    /\ success = FALSE
    /\ exit_status = NotExited
    /\ m_exc = NoException

\* all_errors.extend(errors); all_warnings.extend(warnings)
Extend(r) ==
    /\ all_errors' = all_errors \o r.errors
    /\ all_warnings' = all_warnings \o r.warnings

\* an exception nothing catches: the interpreter prints the traceback and
\* the process ends with status 1
Die(error) ==
    /\ m_pc' = "exited"
    /\ exit_status' = 1
    /\ m_exc' = error
    /\ UNCHANGED <<all_errors, all_warnings, success>>

\* line 290-291: `except Exception as e` around the checks of the inputs
ErrorLoading ==
    /\ all_errors' = Append(all_errors, <<"Error loading configuration">>)
    /\ m_pc' = "deps"
    /\ UNCHANGED all_warnings

\* lines 263-267
MainConfig ==
    /\ m_pc = "config"
    /\ \E r \in {validate_config_file(env.config)} :
          IF r.raised THEN Die(r.error)
          ELSE /\ Extend(r)
               /\ m_pc' = IF r.errors = <<>> THEN "viral" ELSE "deps"
               /\ UNCHANGED <<success, exit_status, m_exc>>
    /\ UNCHANGED <<env, args>>
    /\ UNCHANGED <<scanVars, parseVars, mainVars, validatorVars>>

\* lines 269-276
MainViral ==
    /\ m_pc = "viral"
    /\ IF InConfig(LoadYaml(env.config).config, "viral_database")
       THEN \E r \in {validate_fasta_file(env.viral, "Viral database")} :
              IF r.raised THEN ErrorLoading
              ELSE Extend(r) /\ m_pc' = "refs"
       ELSE m_pc' = "refs" /\ UNCHANGED <<all_errors, all_warnings>>
    /\ UNCHANGED <<env, args, success, exit_status, m_exc>>
    /\ UNCHANGED <<scanVars, parseVars, mainVars, validatorVars>>

RECURSIVE ValidateRefs(_, _, _)
\* lines 280-283: the lists of every reference genome, one after the other
ValidateRefs(r, files, k) ==
    IF k > Len(files) THEN r
    ELSE LET one == validate_fasta_file(files[k], "Reference genome")
         IN ValidateRefs([r EXCEPT !.errors = @ \o one.errors, !.warnings = @ \o one.warnings],
                         files, k + 1)

\* lines 279-283; iterating over null raises TypeError, which line 290 catches
MainRefs ==
    /\ m_pc = "refs"
    /\ IF ~InConfig(LoadYaml(env.config).config, "reference_genomes")
       THEN m_pc' = "dirs" /\ UNCHANGED <<all_errors, all_warnings>>
       ELSE IF env.refs.kind = "null" THEN ErrorLoading
       ELSE Extend(ValidateRefs(Lists(<<>>, <<>>), env.refs.files, 1)) /\ m_pc' = "dirs"
    /\ UNCHANGED <<env, args, success, exit_status, m_exc>>
    /\ UNCHANGED <<scanVars, parseVars, mainVars, validatorVars>>

\* lines 286-288
MainDirs ==
    /\ m_pc = "dirs"
    /\ Extend(validate_directories(env.dirs))
    /\ m_pc' = "deps"
    /\ UNCHANGED <<env, args, success, exit_status, m_exc>>
    /\ UNCHANGED <<scanVars, parseVars, mainVars, validatorVars>>

\* lines 294-296
MainDeps ==
    /\ m_pc = "deps"
    /\ Extend(validate_dependencies(env.tools))
    /\ m_pc' = "report"
    /\ UNCHANGED <<env, args, success, exit_status, m_exc>>
    /\ UNCHANGED <<scanVars, parseVars, mainVars, validatorVars>>

\* line 299
MainReport ==
    /\ m_pc = "report"
    /\ \E g \in {generate_validation_report(all_errors, all_warnings, env.entry, args.report)} :
          IF g.raised THEN Die(g.error)
          ELSE /\ success' = g.success
               /\ m_pc' = "exit"
               /\ UNCHANGED <<all_errors, all_warnings, exit_status, m_exc>>
    /\ UNCHANGED <<env, args>>
    /\ UNCHANGED <<scanVars, parseVars, mainVars, validatorVars>>

\* lines 301-310
MainExit ==
    /\ m_pc = "exit"
    /\ LET ok == IF args.strict /\ all_warnings # <<>> THEN FALSE ELSE success
       IN /\ success' = ok
          /\ exit_status' = IF ok THEN 0 ELSE 1
    /\ m_pc' = "exited"
    /\ UNCHANGED <<env, args, all_errors, all_warnings, m_exc>>
    /\ UNCHANGED <<scanVars, parseVars, mainVars, validatorVars>>

ValidateNext ==
    \/ MainConfig \/ MainViral \/ MainRefs \/ MainDirs \/ MainDeps \/ MainReport \/ MainExit

-----------------------------------------------------------------------------
MainIdle ==
    /\ samples = <<>>
    /\ fs = [s \in SampleIds |-> NoFiles]
    /\ pc = "off"
    /\ idx = 0
    /\ stats_dict = EmptyDict
    /\ regions_dict = EmptyDict
    /\ bed_files = EmptyDict
    /\ charts = NoCharts
    /\ html = NoHtml
    /\ err = NoError

\* the variables of the specifications that are not running
ScanIdle ==
    /\ fasta = <<>>
    /\ sc_pc = "off"
    /\ rec_idx = 0
    /\ pos = 0
    /\ in_n_region = FALSE
    /\ start = 0
    /\ regions = <<>>
    /\ run = 0
    /\ bed = NoBed
    /\ first_bed = NoBed

ParseIdle ==
    /\ log_kind = "none"
    /\ log_file = MissingFile
    /\ p_pc = "off"
    /\ p_result = Returned(EmptyStats)

ValidatorsIdle ==
    /\ v_kind = "none"
    /\ v_file = MissingSeqFile
    /\ v_type = "FASTA"
    /\ v_pc = "off"
    /\ v_result = Lists(<<>>, <<>>)

ValidateIdle ==
    /\ env = [config |-> MissingConfig, viral |-> MissingSeqFile,
              refs |-> [kind |-> "null", files |-> <<>>], dirs |-> <<>>, tools |-> {},
              entry |-> "script"]
    /\ args = [strict |-> FALSE, report |-> "none"]
    /\ m_pc = "off"
    /\ all_errors = <<>>
    /\ all_warnings = <<>>
    /\ success = FALSE
    /\ exit_status = NotExited
    /\ m_exc = NoException

InitScan == ScanInit /\ ParseIdle /\ MainIdle /\ ValidatorsIdle /\ ValidateIdle

SpecScan == InitScan /\ [][ScanNext]_vars

InitParse == ParseInit /\ ScanIdle /\ MainIdle /\ ValidatorsIdle /\ ValidateIdle

SpecParse == InitParse /\ [][ParseNext]_vars

InitMain == Init /\ ScanIdle /\ ParseIdle /\ ValidatorsIdle /\ ValidateIdle

Spec == InitMain /\ [][Next]_vars

InitValidators == ValidatorsInit /\ ScanIdle /\ ParseIdle /\ MainIdle /\ ValidateIdle

SpecValidators == InitValidators /\ [][ValidatorsNext]_vars

InitValidate == ValidateInit /\ ScanIdle /\ ParseIdle /\ MainIdle /\ ValidatorsIdle

SpecValidate == InitValidate /\ [][ValidateNext]_vars

-----------------------------------------------------------------------------
(* Claims about find_masked_regions (checked under SpecScan)               *)

\* the letter N in either case, as the specification defines "masked"
LetterN(base) == base \in {"N", "n"}

\* number of maximal runs of N in seq: positions where a run begins
NumRuns(seq) ==
    Cardinality({p \in 1..Len(seq) :
                    LetterN(seq[p]) /\ (p = 1 \/ ~LetterN(seq[p - 1]))})

RECURSIVE RunsBefore(_)
\* number of maximal runs in the records before record k
RunsBefore(k) == IF k <= 1 THEN 0 ELSE RunsBefore(k - 1) + NumRuns(fasta[k - 1].seq)

\* the part of the returned list that belongs to record k
IntervalsOf(k) == SubSeq(regions, RunsBefore(k) + 1, RunsBefore(k + 1))

Covers(iv, p) == \E j \in 1..Len(iv) : iv[j].start <= p /\ p < iv[j].end

\* C1: the intervals produced for a sequence are exactly its maximal runs of
\* N/n: a position is inside an interval iff its letter is N/n, consecutive
\* intervals are separated by a non-N letter, a run reaching the last position
\* is closed at the sequence length, and an all-N sequence gives one [0, len).
C1_ExactlyMaximalRuns ==
    sc_pc = "done" =>
        /\ Len(regions) = RunsBefore(Len(fasta) + 1)
        /\ \A k \in 1..Len(fasta) :
            LET seq == fasta[k].seq
                iv == IntervalsOf(k)
            IN /\ \A j \in 1..Len(iv) :
                     /\ iv[j].chrom = fasta[k].id
                     /\ 0 <= iv[j].start /\ iv[j].start < iv[j].end
                     /\ iv[j].end <= Len(seq)
               /\ \A p \in 0..(Len(seq) - 1) : Covers(iv, p) <=> LetterN(seq[p + 1])
               /\ \A j \in 1..(Len(iv) - 1) :
                     \E p \in iv[j].end..(iv[j + 1].start - 1) : ~LetterN(seq[p + 1])
               /\ (Len(seq) > 0 /\ LetterN(seq[Len(seq)])) =>
                     (Len(iv) > 0 /\ iv[Len(iv)].end = Len(seq))
               /\ (Len(seq) > 0 /\ \A p \in 1..Len(seq) : LetterN(seq[p])) =>
                     iv = <<[chrom |-> fasta[k].id, start |-> 0,
                             end |-> Len(seq), length |-> Len(seq)]>>

\* a finished scan of a file holding a record with two runs, the second one
\* touching the end, and an all-N record
C1_Witness ==
    /\ sc_pc = "done"
    /\ Len(fasta) = 2
    /\ fasta[1].seq = <<"n", "A", "N">>
    /\ fasta[2].seq = <<"N">>
    /\ Len(regions) = 3

\* C2: every interval has length == end - start > 0 and end <= sequence
\* length; the intervals of one sequence do not overlap and their starts
\* increase strictly.
C2_IntervalInvariant ==
    /\ \A j \in 1..Len(regions) :
          /\ regions[j].length = regions[j].end - regions[j].start
          /\ regions[j].length > 0
    /\ sc_pc = "done" =>
          \A k \in 1..Len(fasta) :
              LET iv == IntervalsOf(k)
              IN /\ \A j \in 1..Len(iv) : iv[j].end <= Len(fasta[k].seq)
                 /\ \A j \in 1..(Len(iv) - 1) :
                       /\ iv[j].start < iv[j + 1].start
                       /\ iv[j].end <= iv[j + 1].start

\* a finished scan in which one record produced two intervals
C2_Witness ==
    /\ sc_pc = "done"
    /\ \E k \in 1..Len(fasta) : Len(IntervalsOf(k)) = 2 /\ Len(fasta[k].seq) = 3

-----------------------------------------------------------------------------
(* Claims about parse_mask_log / parse_map_log (checked under SpecParse)   *)

\* the pattern matches somewhere in the text
Occurs(pat, text) == \E p \in 1..Len(text) : MatchFrom(text, p, pat, 1, NoCaps).found

\* the text holds the tokens sub, consecutively
Contains(text, sub) ==
    \E p \in 1..(Len(text) - Len(sub) + 1) : SubSeq(text, p, p + Len(sub) - 1) = sub

PatternOf(field) ==
    CASE field = "total_bases" -> RefBasesPat
      [] field = "low_complexity_bases" -> LowComplexityPat
      [] field = "viral_masked_bases" -> SamMaskedPat
      [] field \in {"total_masked_bases", "masking_percentage"} -> TotalMaskedPat
      [] field = "total_reads" -> ReadsUsedPat
      [] field \in {"mapped_percentage", "mapped_reads"} -> MappedPat
      [] field = "match_rate" -> MatchRatePat

FieldsOf(kind) == IF kind = "mask" THEN MaskFields ELSE MapFields

ParsedReadable == p_pc \in {"returned", "raised"} /\ log_file.exists /\ log_file.readable

\* the fields of a record that was returned are those whose pattern occurs
ReturnedFieldsMatchPatterns ==
    p_pc = "returned" =>
        \A f \in FieldsOf(log_kind) :
            f \in DOMAIN p_result.stats <=> Occurs(PatternOf(f), log_file.content)

\* C3: each statistic is extracted independently of the others: for every log
\* text the parser returns a record, and a field is in it iff its own label
\* pattern occurs in the text, whatever else the text holds.
C3_FieldsIndependent ==
    ParsedReadable =>
        /\ p_result.ok
        /\ \A f \in FieldsOf(log_kind) :
              f \in DOMAIN p_result.stats <=> Occurs(PatternOf(f), log_file.content)

\* C6: a masking-log field whose label is present with an unparsable value is
\* dropped for that field only: extraction does not fail and every other
\* statistic of the log is still returned.
C6_MalformedFieldDropped ==
    (ParsedReadable /\ log_kind = "mask") =>
        /\ p_pc = "returned"
        /\ \A f \in {"total_bases", "low_complexity_bases", "viral_masked_bases"} :
              Occurs(PatternOf(f), log_file.content) => f \in DOMAIN p_result.stats

TotalMaskedValue ==
    <<" ", "1", "5", "0", "/", "1", "0", "0", "0", " ", "1", "5", ".", "0", "0", "0", "%">>
TotalMaskedLine == <<"Total Bases Masked:">> \o TotalMaskedValue

BothOrNeither(stats) ==
    "total_masked_bases" \in DOMAIN stats <=> "masking_percentage" \in DOMAIN stats

Yields150And15(stats) ==
    /\ "total_masked_bases" \in DOMAIN stats
    /\ "masking_percentage" \in DOMAIN stats
    /\ stats["total_masked_bases"] = [num |-> 150, scale |-> 0]
    /\ stats["masking_percentage"] = [num |-> 15, scale |-> 0]

NeitherKey(stats) ==
    /\ "total_masked_bases" \notin DOMAIN stats
    /\ "masking_percentage" \notin DOMAIN stats

\* C7 as stated: in every returned record total_masked_bases is present iff
\* masking_percentage is; any log containing
\* 'Total Bases Masked: 150/1000 15.000%' yields 150 and 15.0; a log without a
\* Total Bases Masked line yields neither key.
C7_AsStated ==
    (ParsedReadable /\ log_kind = "mask") =>
        /\ p_pc = "returned" => BothOrNeither(p_result.stats)
        /\ Contains(log_file.content, TotalMaskedLine) =>
              (p_pc = "returned" /\ Yields150And15(p_result.stats))
        /\ ~Occurs(TotalMaskedPat, log_file.content) =>
              (p_pc = "returned" /\ NeitherKey(p_result.stats))

\* the label occurs once in the text, and what follows it is the value
OnlyTotalMaskedLine(text) ==
    /\ Contains(text, TotalMaskedLine)
    /\ Cardinality({p \in 1..Len(text) : text[p] = "Total Bases Masked:"}) = 1

\* C7 (amended): in every returned record total_masked_bases is present iff
\* masking_percentage is; a log whose only Total Bases Masked line is
\* 'Total Bases Masked: 150/1000 15.000%' yields 150 and 15.0; a log without a
\* Total Bases Masked line yields neither key.
C7_TotalAndPercentageTogether ==
    (ParsedReadable /\ log_kind = "mask") =>
        /\ p_pc = "returned" => BothOrNeither(p_result.stats)
        /\ OnlyTotalMaskedLine(log_file.content) =>
              (p_pc = "returned" /\ Yields150And15(p_result.stats))
        /\ ~Occurs(TotalMaskedPat, log_file.content) =>
              (p_pc = "returned" /\ NeitherKey(p_result.stats))

\* a returned record with 150 and 15.0 next to another statistic of the log
C7_Witness ==
    /\ p_pc = "returned"
    /\ log_kind = "mask"
    /\ OnlyTotalMaskedLine(log_file.content)
    /\ Yields150And15(p_result.stats)
    /\ "total_bases" \in DOMAIN p_result.stats

-----------------------------------------------------------------------------
(* Claims about main and the report (checked under Spec)                   *)

RECURSIVE FirstOccurrences(_)
\* the sequence without the later repetitions of an element
FirstOccurrences(sq) ==
    IF sq = <<>> THEN <<>>
    ELSE LET init == FirstOccurrences(SubSeq(sq, 1, Len(sq) - 1))
             x == sq[Len(sq)]
         IN IF x \in Range(init) THEN init ELSE Append(init, x)

RunEnded == pc \in {"done", "crashed"}

\* the loop over the samples has run to its end
LoopFinished == pc \in {"viz", "html", "done"} \/ (pc = "crashed" /\ idx = Len(samples))

Unreadable(file) == file.exists /\ ~file.readable

\* neither log of the sample holds a number float() rejects
LogsWellFormed(s) ==
    /\ (fs[s].mask.exists /\ fs[s].mask.readable) => parse_mask_log(fs[s].mask).ok
    /\ (fs[s].map.exists /\ fs[s].map.readable) => parse_map_log(fs[s].map).ok

\* C4: no statistic absent from a sample's record is presented as the number
\* zero by a later stage: a field of a record comes from the sample's log, a
\* zero handed to a chart is a zero of the record, and every number in the
\* HTML report is a statistic of the record.
C4_AbsentNeverShownAsZero ==
    /\ \A q \in 1..Len(stats_dict) :
          \A f \in DOMAIN stats_dict[q].val :
             LET log == IF f \in MaskFields THEN fs[stats_dict[q].key].mask
                        ELSE fs[stats_dict[q].key].map
             IN log.exists /\ Occurs(PatternOf(f), log.content)
    /\ charts.drawn =>
          \A q \in 1..Len(charts.samples) :
             LET st == DictGet(stats_dict, charts.samples[q])
             IN /\ charts.viral_bases[q] = Zero => "viral_masked_bases" \in DOMAIN st
                /\ charts.lowc_bases[q] = Zero => "low_complexity_bases" \in DOMAIN st
                /\ charts.mask_pcts[q] = Zero => "masking_percentage" \in DOMAIN st
                /\ charts.map_drawn =>
                      (charts.map_pcts[q] = Zero => "mapped_percentage" \in DOMAIN st)
    /\ html.written =>
          \A q \in 1..Len(html.blocks) :
             {"total_bases", "masking_percentage", "viral_masked_bases",
              "low_complexity_bases", "mapped_reads", "mapped_percentage"}
                 \subseteq DOMAIN DictGet(stats_dict, html.blocks[q].sample)

\* C5: when a file of one sample exists but cannot be read, the run is not
\* aborted: every other sample is processed, has its record in the aggregate
\* and has its coordinate file written.  (Stated for runs whose logs are all
\* well formed, so that only the failed read is in play.)
C5_ReadFailureIsolated ==
    (RunEnded /\ \A s \in Range(samples) : LogsWellFormed(s)) =>
        \A s \in Range(samples) :
            ~(Unreadable(fs[s].mask) \/ Unreadable(fs[s].map) \/ Unreadable(fs[s].fasta)) =>
                /\ DictHas(stats_dict, s)
                /\ fs[s].fasta.exists => DictHas(bed_files, s)

\* C8: every supplied sample whose logs are each missing or readable gets a
\* record in the aggregate; with the mapping log missing and the masking log
\* present the record holds the masking fields of the log and no mapping
\* field; a missing log is never an error.
C8_EverySampleGetsRecord ==
    /\ err.type # "FileNotFoundError"
    /\ RunEnded =>
        \A s \in Range(samples) :
            ~(Unreadable(fs[s].mask) \/ Unreadable(fs[s].map)) =>
                /\ DictHas(stats_dict, s)
                /\ (fs[s].mask.exists /\ ~fs[s].map.exists) =>
                      LET st == DictGet(stats_dict, s)
                      IN /\ \A f \in MaskFields :
                               Occurs(PatternOf(f), fs[s].mask.content) => f \in DOMAIN st
                         /\ DOMAIN st \cap MapFields = {}

RECURSIVE ExpectedLengths(_)
\* the region lengths of the samples (in order) whose masked FASTA exists
ExpectedLengths(ids) ==
    IF ids = <<>> THEN <<>>
    ELSE LET file == fs[Head(ids)].fasta
             rs == IF file.exists THEN find_masked_regions(file.content) ELSE <<>>
         IN [k \in 1..Len(rs) |-> rs[k].length] \o ExpectedLengths(Tail(ids))

\* C9: a sample whose masked-sequence file does not exist contributes an
\* empty interval list: the aggregate gives no interval for it, the length
\* histogram gets no length from it, the report shows 0 regions for it, and
\* the missing file never raises.
C9_MissingFastaGivesNoIntervals ==
    /\ err.type # "FileNotFoundError"
    /\ \A s \in Range(samples) :
          ~fs[s].fasta.exists =>
             /\ DictGetOr(regions_dict, s, <<>>) = <<>>
             /\ html.written =>
                   \A q \in 1..Len(html.blocks) :
                      html.blocks[q].sample = s => html.blocks[q].cells[7] = <<"0">>
    /\ charts.drawn => charts.all_lengths = ExpectedLengths(FirstOccurrences(samples))

\* a finished report over a sample without masked FASTA and one with two runs
C9_Witness ==
    /\ pc = "done"
    /\ html.written
    /\ charts.drawn
    /\ Len(samples) = 2
    /\ ~fs[samples[1]].fasta.exists
    /\ fs[samples[2]].fasta.exists
    /\ Len(charts.all_lengths) = 2
    /\ html.blocks[1].cells[7] = <<"0">>
    /\ html.blocks[2].cells[7] = <<"2">>

-----------------------------------------------------------------------------
(* Claims about the BED file and the repeated extraction (SpecScan)        *)

\* C11: the file generate_bed_file has just written consists of the two
\* comment header lines followed by exactly one line per interval, in the
\* order of the list; line k carries the interval's sequence id, start and
\* end, the name masked_region_k, the interval's length end - start as the
\* score, and the strand ".".
C11_BedFileLayout ==
    sc_pc = "written" =>
        /\ Len(bed) = 2 + Len(regions)
        /\ bed[1] = <<"# BED file of masked regions">>
        /\ bed[2] = <<"# chrom", "start", "end", "name", "score", "strand">>
        /\ \A k \in 1..Len(regions) :
              bed[2 + k] = <<regions[k].chrom, regions[k].start, regions[k].end,
                             <<"masked_region_", k>>,
                             regions[k].end - regions[k].start, ".">>

\* a written file of two intervals of different lengths on different records
C11_Witness ==
    /\ sc_pc = "written"
    /\ Len(fasta) = 2
    /\ fasta[1] = [id |-> "chr1", seq |-> <<"N", "n">>]
    /\ fasta[2] = [id |-> "chr2", seq |-> <<"A", "N">>]
    /\ Len(bed) = 4
    /\ bed[3] = <<"chr1", 0, 2, <<"masked_region_", 1>>, 2, ".">>
    /\ bed[4] = <<"chr2", 1, 2, <<"masked_region_", 2>>, 1, ".">>

\* the complement of the interval list iv within [0, n): the gap before the
\* first interval, the gaps between consecutive intervals, the gap after the
\* last one (gap j follows interval j; gap 0 comes first)
Complement(iv, n) ==
    [j \in 0..Len(iv) |->
        [start |-> IF j = 0 THEN 0 ELSE iv[j].end,
         end |-> IF j = Len(iv) THEN n ELSE iv[j + 1].start]]

\* a run of len copies of x (nothing when len is not positive)
Copies(x, len) == [q \in 1..len |-> x]

RECURSIVE Rebuild(_, _, _)
\* the runs of gaps j..Len(iv) and of intervals j+1..Len(iv), concatenated in
\* position order; an interval contributes as many letters as its length says
Rebuild(iv, gaps, j) ==
    Copies("unmasked", gaps[j].end - gaps[j].start)
        \o (IF j = Len(iv) THEN <<>>
            ELSE Copies("masked", iv[j + 1].length) \o Rebuild(iv, gaps, j + 1))

\* which positions of seq are masked
MaskPattern(seq) ==
    [q \in 1..Len(seq) |-> IF LetterN(seq[q]) THEN "masked" ELSE "unmasked"]

\* C12: round trip. For every sequence of a scanned file, concatenating the
\* masked runs of its interval list and the unmasked runs of the complement
\* of that list, in position order, gives back the sequence's pattern of
\* masked and unmasked letters: the runs tile the sequence, so the interval
\* lengths plus the complement lengths are the sequence length.
C12_RunsTileTheSequence ==
    sc_pc \in {"done", "written"} =>
        \A k \in 1..Len(fasta) :
            LET seq == fasta[k].seq
                iv == IntervalsOf(k)
                gaps == Complement(iv, Len(seq))
            IN /\ \A j \in 0..Len(iv) : gaps[j].start <= gaps[j].end
               /\ Rebuild(iv, gaps, 0) = MaskPattern(seq)
               /\ Len(Rebuild(iv, gaps, 0)) = Len(seq)

\* a scanned record A N N A: one interval of two letters between two gaps
C12_Witness ==
    /\ sc_pc = "done"
    /\ Len(fasta) = 1
    /\ fasta[1].seq = <<"A", "N", "n", "A">>
    /\ Len(regions) = 1
    /\ regions[1].length = 2
    /\ Rebuild(regions, Complement(regions, 4), 0) = <<"unmasked", "masked", "masked", "unmasked">>

\* C13: running the extraction (the scan followed by generate_bed_file) again
\* on the same input writes the same file, line for line, as the first run
\* did: at every write the file is the one determined by the input sequences
\* alone, whatever an earlier run left behind.
C13_SameInputSameBedFile ==
    sc_pc = "written" =>
        /\ bed = generate_bed_file(find_masked_regions(fasta))
        /\ run > 1 => bed = first_bed

\* the second run has written its file, the first one having ended inside a
\* run of N (its flag was still set when the second run started)
C13_Witness ==
    /\ sc_pc = "written"
    /\ run = 2
    /\ in_n_region
    /\ Len(fasta) = 2
    /\ Len(regions) = 3
    /\ Len(first_bed) = 5
    /\ bed = first_bed

\* C17: the run state is reset when a record is entered, so no interval
\* spans two records: the flat list is the concatenation, in record order, of
\* the lists of the records, each interval carries the id of its own record
\* and ends within it, starts increase within a record, and a record ending
\* in N followed by a record starting with N gives two intervals, the first
\* closed at the end of its record and the second starting at 0.
C17_NoIntervalSpansRecords ==
    /\ (sc_pc = "seq" /\ pos = 0) => (~in_n_region /\ start = 0)
    /\ sc_pc = "done" =>
          /\ Len(regions) = RunsBefore(Len(fasta) + 1)
          /\ \A k \in 1..Len(fasta) :
                LET iv == IntervalsOf(k)
                IN /\ \A j \in 1..Len(iv) :
                         iv[j].chrom = fasta[k].id /\ iv[j].end <= Len(fasta[k].seq)
                   /\ \A j \in 1..(Len(iv) - 1) : iv[j].start < iv[j + 1].start
          /\ \A k \in 1..(Len(fasta) - 1) :
                LET a == fasta[k].seq
                    b == fasta[k + 1].seq
                IN (Len(a) > 0 /\ Len(b) > 0 /\ LetterN(a[Len(a)]) /\ LetterN(b[1])) =>
                      LET q == RunsBefore(k + 1)
                      IN /\ q >= 1 /\ q + 1 <= Len(regions)
                         /\ regions[q].chrom = fasta[k].id
                         /\ regions[q].end = Len(a)
                         /\ regions[q + 1].chrom = fasta[k + 1].id
                         /\ regions[q + 1].start = 0

\* a scanned file whose first record ends in N and whose second starts with N
C17_Witness ==
    /\ sc_pc = "done"
    /\ fasta = << [id |-> "chr1", seq |-> <<"A", "N">>],
                  [id |-> "chr2", seq |-> <<"n", "A">>] >>
    /\ regions = << [chrom |-> "chr1", start |-> 1, end |-> 2, length |-> 1],
                    [chrom |-> "chr2", start |-> 0, end |-> 1, length |-> 1] >>

-----------------------------------------------------------------------------
(* Claims about the errors of the report run (Spec)                        *)

\* the paths main builds for sample s
PathsOf(s) == {MaskLogPath(s), MapLogPath(s), MaskedFastaPath(s)}

\* C14: when a log file of the sample being processed cannot be opened, the
\* run does not get past that sample, and the error that is signalled names
\* the file whose read failed; that name belongs to this sample and to no
\* other, so it identifies the sample as well.
C14_OpenErrorNamesSampleAndFile ==
    /\ LoopFinished /\ pc # "crashed" =>
          \A s \in Range(samples) : ~Unreadable(fs[s].mask) /\ ~Unreadable(fs[s].map)
    /\ (pc = "crashed" /\ err.type \in OSErrors) =>
          LET sample == samples[idx + 1]
          IN /\ err.filename # NoPath
             /\ Unreadable(fs[sample].mask) => err.filename = MaskLogPath(sample)
             /\ (~Unreadable(fs[sample].mask) /\ Unreadable(fs[sample].map)) =>
                    err.filename = MapLogPath(sample)
             /\ \A s \in SampleIds : err.filename \in PathsOf(s) => s = sample

\* the mapping log of the second sample could not be opened
C14_Witness ==
    /\ pc = "crashed"
    /\ err.type = "PermissionError"
    /\ samples = <<"s1", "s2">>
    /\ idx = 1
    /\ ~Unreadable(fs["s2"].mask)
    /\ Unreadable(fs["s2"].map)
    /\ err.filename = <<"log_dir", "s2", "_map.log">>

-----------------------------------------------------------------------------
(* Claims about the validators (SpecValidators)                            *)

\* the value is an integer between lo and hi
IntWithin(v, lo, hi) == v.present /\ v.type = "int" /\ lo <= v.num /\ v.num <= hi

\* a configuration file holding a mapping with every required section and
\* parameter, min_identity in 0..100, max_indel in 0..20, an integer overlap
\* smaller than the integer median_length, and threads a positive integer
CompleteConfig(file) ==
    /\ file.exists /\ file.readable /\ file.yaml_ok
    /\ file.doc.kind = "map"
    /\ file.doc.top = {"viral_database", "reference_genomes", "output_dir", "temp_dir", "log_dir"}
    /\ file.doc.shred.kind = "map"
    /\ file.doc.mapping.kind = "map"
    /\ file.doc.masking.kind = "map"
    /\ \A q \in {"overlap", "median_length", "variance", "min_length"} :
          file.doc.shred.params[q].present
    /\ file.doc.masking.params.entropy_threshold.present
    /\ IntWithin(file.doc.mapping.params.min_identity, 0, 100)
    /\ IntWithin(file.doc.mapping.params.max_indel, 0, 20)
    /\ file.doc.shred.params.overlap.type = "int"
    /\ file.doc.shred.params.median_length.type = "int"
    /\ file.doc.shred.params.overlap.num < file.doc.shred.params.median_length.num
    /\ file.doc.threads.present /\ file.doc.threads.type = "int" /\ file.doc.threads.num >= 1

\* C15: validate_config_file returns an empty error list for every
\* configuration that holds all required sections and parameters with
\* min_identity in 0..100, max_indel in 0..20, overlap smaller than
\* median_length and threads a positive integer.
C15_CompleteConfigHasNoErrors ==
    (v_kind = "config" /\ v_pc # "call" /\ CompleteConfig(v_file)) =>
        (v_pc = "returned" /\ v_result.errors = <<>>)

\* a complete configuration at the edges: min_identity 0 and 33 threads give
\* two warnings and no error
C15_Witness ==
    /\ v_kind = "config"
    /\ v_pc = "returned"
    /\ CompleteConfig(v_file)
    /\ v_file.doc.mapping.params.min_identity.num = 0
    /\ v_file.doc.threads.num = 33
    /\ v_result.errors = <<>>
    /\ Len(v_result.warnings) = 2

\* C16: called with a path that does not exist, validate_config_file and
\* validate_fasta_file do not raise: they return at once, with the one error
\* that says the file was not found and nothing from any later check.
C16_MissingPathReturnsOneError ==
    (v_pc # "call" /\ ~v_file.exists) =>
        /\ v_pc = "returned"
        /\ ~v_result.raised
        /\ Len(v_result.errors) > 0
        /\ v_result.errors = IF v_kind = "config"
                             THEN << <<"Configuration file not found">> >>
                             ELSE << <<v_type, "file not found">> >>
        /\ v_result.warnings = <<>>

\* validate_fasta_file has returned for a reference genome that is not there
C16_Witness ==
    /\ v_kind = "fasta"
    /\ v_type = "Reference genome"
    /\ ~v_file.exists
    /\ v_pc = "returned"
    /\ Len(v_result.errors) = 1

\* validate_config_file has returned for a configuration that is not there
C16_WitnessConfig ==
    /\ v_kind = "config"
    /\ ~v_file.exists
    /\ v_pc = "returned"
    /\ Len(v_result.errors) = 1

-----------------------------------------------------------------------------
(* Claims about the validation run (SpecValidate)                          *)

\* the accumulated lists allow status 0
ListsAllowSuccess == all_errors = <<>> /\ ~(args.strict /\ all_warnings # <<>>)

\* C18: the validation run ends with exit status 0 iff the accumulated error
\* list is empty and not (strict mode is on and the accumulated warning list
\* is non-empty); in every other case it ends with exit status 1.
C18_ExitStatusFollowsLists ==
    m_pc = "exited" =>
        /\ exit_status \in {0, 1}
        /\ exit_status = 0 <=> ListsAllowSuccess

\* what does hold: a run that reaches line 301 ends as C18 says, and a run
\* ended by an exception ends with status 1 whatever the lists hold
ExitStatusOfCompletedRuns ==
    m_pc = "exited" =>
        IF m_exc = NoException THEN (exit_status = 0 <=> ListsAllowSuccess) /\ exit_status \in {0, 1}
        ELSE exit_status = 1

\* a run that ended with status 0 although it gathered warnings (strict off)
CompletedRunWithWarnings ==
    /\ m_pc = "exited"
    /\ exit_status = 0
    /\ ~args.strict
    /\ Len(all_warnings) > 1

=============================================================================
